---------------------------- MODULE Spec2Model ----------------------------
(***************************************************************************)
(* A model of the rast software rasterizer (src/src/graphics).             *)
(*                                                                         *)
(* Numbers.  A pixel colour is a u32; TLC's integers are signed 32-bit, so  *)
(* a u32 is held as its four bytes, most significant first (0x787878FF is  *)
(* <<120, 120, 120, 255>>).  NDC coordinates and depths are                *)
(* f32 in the program; here they are exact rationals: every operation is   *)
(* computed without rounding error (f32 rounding is not modelled).  A depth value is a record    *)
(* [n, d]: d > 0 is the rational n/d in lowest terms, [0,0] is NaN and     *)
(* [1,0], [-1,0] are +inf and -inf.                                        *)
(*                                                                         *)
(* Option<T> is a sequence of length 0 (None) or 1 (Some).                 *)
(***************************************************************************)
EXTENDS Integers, Sequences, FiniteSets, TLC

\* ------------------------------------------------------------------ bounds
\* Framebuffer shapes explored by SpecFB: widths 0..MaxW, heights 0..MaxH,
\* 0..MaxK colour attachments.
MaxW == 2
MaxH == 2
MaxK == 1
\* Operations applied to the framebuffer in one SpecFB behaviour.
MaxFbSteps == 3
\* Spec: at most MaxStack handles on the render-target stack, at most MaxCalls
\* render_indexed calls per frame.
MaxStack == 2
MaxCalls == 2

VARIABLES
    fb,         \* SpecFB: the Framebuffer under test
    view,       \* SpecFB: the Vec<MutableScanline> last returned by scanlines
    fblast,     \* SpecFB: the last framebuffer operation and its outcome
    fbsteps,    \* SpecFB: operations applied so far
    fbshape,    \* SpecFB: the arguments Framebuffer::new was called with
    stats,          \* Rasterizer::stats
    render_targets, \* Rasterizer::render_targets, front first
    targets,        \* the framebuffer behind each Arc<Mutex<Framebuffer>> handle
    last,           \* the last Rasterizer call: op, res and arg
    input,      \* the arguments of a function applied on its own, if any
    output,     \* what it returned, once applied
    par,        \* SpecThreads: the render_indexed call in progress, if any
    mutex,      \* SpecThreads: the Mutex of the top framebuffer
    presenter,  \* SpecThreads: another holder of the handle, and what it saw
    boundary    \* SpecThreads: the framebuffer when the mutex was last released

fbvars == <<fb, view, fblast, fbsteps, fbshape>>
rvars == <<stats, render_targets, targets, last>>
avars == <<input, output>>
tvars == <<par, mutex, presenter, boundary>>
vars == <<fb, view, fblast, fbsteps, fbshape, stats, render_targets, targets, last,
          input, output, par, mutex, presenter, boundary>>

\* F(v), with v evaluated once: the evaluator binds x to the value of v, not
\* to the expression, so a loop that threads its result through its next
\* iteration computes each iteration once.
Bind(v, F(_)) == CHOOSE r \in { F(x) : x \in {v} } : TRUE

\* ------------------------------------------------------------------ Option
None == <<>>
Some(x) == <<x>>
IsSome(o) == Len(o) = 1
Unwrap(o) == o[1]

\* --------------------------------------------------------------------- f32
Sgn(n) == IF n > 0 THEN 1 ELSE IF n < 0 THEN -1 ELSE 0
Abs(n) == IF n < 0 THEN -n ELSE n

RECURSIVE Gcd(_, _)
Gcd(a, b) == IF b = 0 THEN a ELSE Gcd(b, a % b)

\* The value n/d: in lowest terms with d > 0, or NaN / +inf / -inf when d = 0.
F32(n, d) ==
    IF d = 0
    THEN [n |-> Sgn(n), d |-> 0]
    ELSE LET g == Gcd(Abs(n), Abs(d))
         IN  [n |-> Sgn(d) * (n \div g), d |-> Abs(d) \div g]

F32Zero == F32(0, 1)
F32One == F32(1, 1)
F32NaN == F32(0, 0)
IsNaN(a) == a.d = 0 /\ a.n = 0
IsInf(a) == a.d = 0 /\ a.n # 0

\* a + b, a - b, a * b, a / b as IEEE arithmetic defines them on NaN and the
\* infinities (zero is unsigned here).  Common factors are divided out before
\* the products are taken.
FNeg(a) == [n |-> -a.n, d |-> a.d]
FAdd(a, b) ==
    IF IsNaN(a) \/ IsNaN(b) THEN F32NaN
    ELSE IF IsInf(a) /\ IsInf(b) THEN (IF a.n = b.n THEN a ELSE F32NaN)
    ELSE IF IsInf(a) THEN a
    ELSE IF IsInf(b) THEN b
    ELSE LET g == Gcd(a.d, b.d)
         IN  F32(a.n * (b.d \div g) + b.n * (a.d \div g), (a.d \div g) * b.d)
FSub(a, b) == FAdd(a, FNeg(b))
FMul(a, b) ==
    IF IsNaN(a) \/ IsNaN(b) THEN F32NaN
    ELSE IF IsInf(a) \/ IsInf(b) THEN F32(Sgn(a.n) * Sgn(b.n), 0)
    ELSE LET g == Gcd(Abs(a.n), b.d)
             h == Gcd(Abs(b.n), a.d)
         IN  F32((a.n \div g) * (b.n \div h), (a.d \div h) * (b.d \div g))
FDiv(a, b) ==
    IF IsNaN(a) \/ IsNaN(b) THEN F32NaN
    ELSE IF IsInf(b) THEN (IF IsInf(a) THEN F32NaN ELSE F32Zero)
    ELSE IF IsInf(a) THEN F32(a.n * (IF b.n < 0 THEN -1 ELSE 1), 0)
    ELSE F32(a.n * b.d, a.d * b.n)

\* a < b, a <= b, a >= b: FALSE as soon as one side is NaN.
FLt(a, b) ==
    IF IsNaN(a) \/ IsNaN(b) THEN FALSE
    ELSE IF a.d = 0 /\ b.d = 0 THEN a.n < b.n
    ELSE IF a.d = 0 THEN a.n < 0
    ELSE IF b.d = 0 THEN b.n > 0
    ELSE a.n * b.d < b.n * a.d
FLe(a, b) == ~IsNaN(a) /\ ~IsNaN(b) /\ ~FLt(b, a)
FGe(a, b) == FLe(b, a)

\* f32::clamp(lo, hi): NaN stays NaN.
FClamp(a, lo, hi) ==
    IF IsNaN(a) THEN a ELSE IF FLt(a, lo) THEN lo ELSE IF FLt(hi, a) THEN hi ELSE a

\* f32::floor and f32::ceil of a finite value, as integers.
FFloor(a) == a.n \div a.d
FCeil(a) == -((-a.n) \div a.d)

\* `x.floor() as usize` / `x.ceil() as usize`: the cast saturates, NaN gives 0.
\* (An infinity would give usize::MAX; no caller passes one.)
FloorAsUsize(a) == IF a.d = 0 THEN 0 ELSE IF FFloor(a) < 0 THEN 0 ELSE FFloor(a)
CeilAsUsize_floor(a) == IF a.d = 0 THEN 0 ELSE IF FFloor(a) < 0 THEN 0 ELSE FFloor(a)
CeilAsUsize(a) == IF a.d = 0 THEN 0 ELSE IF FCeil(a) < 0 THEN 0 ELSE FCeil(a)

Min(a, b) == IF a <= b THEN a ELSE b
Max(a, b) == IF a >= b THEN a ELSE b

\* ------------------------------------------------------------------- Image
\* u32::default()
U32Zero == <<0, 0, 0, 0>>

\* Image::new: width * height copies of T::default().
Image_new(width, height, default) ==
    [data |-> [i \in 1..(width * height) |-> default],
     width |-> width, height |-> height]

\* Image::index_of: None when out of range, else the 0-based linear index.
index_of(img, x, y) ==
    IF x >= img.width \/ y >= img.height
    THEN None
    ELSE Some(y * img.width + x)

\* Image::at
at(img, x, y) ==
    LET idx == index_of(img, x, y)
    IN  IF IsSome(idx) THEN Some(img.data[Unwrap(idx) + 1]) ELSE None

\* Image::exchange: the image after the swap (unchanged when out of range).
exchange(img, x, y, value) ==
    LET idx == index_of(img, x, y)
    IN  IF IsSome(idx)
        THEN [img EXCEPT !.data[Unwrap(idx) + 1] = value]
        ELSE img

\* CoordinateIterator: the (x, y) pairs it yields, in order.
CoordinateIterator(width, height) ==
    [p \in 1..(width * height) |-> <<(p - 1) % width, (p - 1) \div width>>]

\* Image::coordinates
coordinates(img) == CoordinateIterator(img.width, img.height)

\* ------------------------------------------------------------- Framebuffer
RECURSIVE fill_loop(_, _, _, _)
fill_loop(attachment, coords, k, value) ==
    IF k > Len(coords)
    THEN attachment
    ELSE Bind(exchange(attachment, coords[k][1], coords[k][2], value),
              LAMBDA swapped : fill_loop(swapped, coords, k + 1, value))

fill_image_skip_last(attachment, value) ==
    LET coords == coordinates(attachment)
    IN  fill_loop(attachment, SubSeq(coords, 1, Len(coords) - 1), 1, value)

\* fill_image: exchange every coordinate of the attachment with value.
fill_image(attachment, value) ==
    fill_loop(attachment, coordinates(attachment), 1, value)

\* Framebuffer::new
Framebuffer_new(width, height, num_color, has_depth) ==
    [width |-> width, height |-> height,
     color |-> [i \in 1..num_color |-> Image_new(width, height, U32Zero)],
     depth |-> IF has_depth THEN Some(Image_new(width, height, F32Zero))
               ELSE None]

\* Framebuffer::size
size(f) == <<f.width, f.height>>

\* Framebuffer::clear
clear(f, value) ==
    [f EXCEPT
        !.color = [i \in 1..Len(f.color) |-> fill_image(f.color[i], value.color)],
        !.depth = IF IsSome(f.depth)
                  THEN Some(fill_image(Unwrap(f.depth), value.depth))
                  ELSE None]

\* A mutable slice of an attachment's data: the 0-based indices lo .. hi-1.
Slice(lo, hi) == [lo |-> lo, hi |-> hi]
split_at_mut_overlap(s, mid) == <<Slice(s.lo, s.lo + mid), Slice(s.lo, s.hi)>>

\* slice.split_at_mut(mid)
split_at_mut(s, mid) == <<Slice(s.lo, s.lo + mid), Slice(s.lo + mid, s.hi)>>

\* The range check of Framebuffer::scanlines: TRUE when it panics.
scanlines_invalid_off_by_one(f, offset, count) ==
    offset > f.height \/ offset + count > f.height

scanlines_invalid(f, offset, count) ==
    offset >= f.height \/ offset + count > f.height

\* One iteration of the loop of Framebuffer::scanlines: every cursor is split
\* at a row's width; the heads make the entry, the tails are the new cursors.
scanlines_step(f, y, color_cursors, depth_cursor) ==
    LET splits == [i \in 1..Len(color_cursors) |->
                      split_at_mut(color_cursors[i], f.width)]
        dsplit == IF IsSome(depth_cursor)
                  THEN split_at_mut(Unwrap(depth_cursor), f.width)
                  ELSE <<>>
    IN  [entry |-> [y |-> y,
                    color |-> [i \in 1..Len(splits) |-> splits[i][1]],
                    depth |-> IF IsSome(depth_cursor) THEN Some(dsplit[1]) ELSE None],
         advanced_cursors |-> [i \in 1..Len(splits) |-> splits[i][2]],
         depth_cursor |-> IF IsSome(depth_cursor) THEN Some(dsplit[2]) ELSE None]

\* The loop of Framebuffer::scanlines over delta_y in 0..count.
RECURSIVE scanlines_loop(_, _, _, _, _, _, _)
scanlines_loop(f, offset, count, delta_y, color_cursors, depth_cursor, acc) ==
    IF delta_y >= count
    THEN acc
    ELSE Bind(scanlines_step(f, offset + delta_y, color_cursors, depth_cursor),
              LAMBDA step :
                  scanlines_loop(f, offset, count, delta_y + 1,
                                 step.advanced_cursors, step.depth_cursor,
                                 Append(acc, step.entry)))

\* Framebuffer::scanlines: [panic |-> TRUE] or the vector of MutableScanline.
scanlines(f, offset, count) ==
    IF scanlines_invalid(f, offset, count)
    THEN [panic |-> TRUE, lines |-> <<>>]
    ELSE
        LET start == offset * f.width
            end == (offset + count) * f.width
        IN  [panic |-> FALSE,
             lines |-> scanlines_loop(f, offset, count, 0,
                          [i \in 1..Len(f.color) |-> Slice(start, end)],
                          IF IsSome(f.depth) THEN Some(Slice(start, end)) ELSE None,
                          <<>>)]

\* row[x] for a slice of an attachment image.
slice_get(img, s, x) == img.data[s.lo + x + 1]
\* row[x] = value
slice_set(img, s, x, value) == [img EXCEPT !.data[s.lo + x + 1] = value]


\* ----------------------------------------------------------------- Scissor
Scissor(x, y, width, height) == [x |-> x, y |-> y, width |-> width, height |-> height]

\* Scissor::contains
contains(s, x, y) ==
    LET x1 == s.x + s.width
        y1 == s.y + s.height
    IN  x >= s.x /\ x < x1 /\ y >= s.y /\ y < y1

intersect_with_strict(self, other) ==
    LET x0 == Max(self.x, other.x)
        y0 == Max(self.y, other.y)
        x1 == Min(self.x + self.width, other.x + other.width)
        y1 == Min(self.y + self.height, other.y + other.height)
    IN  IF x1 < x0 \/ y1 < y0
        THEN None
        ELSE Some(Scissor(x0, y0, x1 - x0, y1 - y0))

\* Scissor::intersect_with
intersect_with(self, other) ==
    LET x0 == Max(self.x, other.x)
        y0 == Max(self.y, other.y)
        x1 == Min(self.x + self.width, other.x + other.width)
        y1 == Min(self.y + self.height, other.y + other.height)
    IN  IF x1 <= x0 \/ y1 <= y0
        THEN None
        ELSE Some(Scissor(x0, y0, x1 - x0, y1 - y0))

\* ---------------------------------------------------------------- blending
\* u32::to_be_bytes, u32::from_be_bytes
\* (a u32 is held as its big-endian bytes)
to_be_bytes(color) == <<color[1], color[2], color[3], color[4]>>
from_be_bytes(b) == <<b[1], b[2], b[3], b[4]>>

\* `f as u8`: truncates toward zero, saturates at 0 and 255, NaN gives 0.
AsU8_wrapping(a) ==
    IF a.d = 0 THEN 0 ELSE FFloor(a) % 256
AsU8(a) ==
    IF IsNaN(a) THEN 0
    ELSE IF FLt(a, F32Zero) THEN 0
    ELSE IF FLt(F32(255, 1), a) THEN 255
    ELSE FFloor(a)

color_to_channels(color) ==
    LET b == to_be_bytes(color)
    IN  [i \in 1..4 |-> FDiv(F32(b[i], 1), F32(256, 1))]

channels_to_color(channels) ==
    from_be_bytes([i \in 1..4 |-> AsU8(FMul(channels[i], F32(256, 1)))])

\* ComponentBlendOp::channel_term
channel_term(value, factor, context) ==
    LET coeff == CASE factor = "Zero" -> F32Zero
                   [] factor = "One" -> F32One
                   [] factor = "SrcAlpha" -> context.src_alpha
                   [] factor = "OneMinusSrcAlpha" -> FSub(F32One, context.src_alpha)
                   [] factor = "DstAlpha" -> context.dst_alpha
                   [] factor = "OneMinusDstAlpha" -> FSub(F32One, context.dst_alpha)
    IN  FMul(coeff, value)

\* ComponentBlendOp::blend
blend(self, src, dst, context) ==
    LET src_term == channel_term(src, self.src_factor, context)
        dst_term == channel_term(dst, self.dst_factor, context)
    IN  CASE self.op = "Add" -> FAdd(src_term, dst_term)
          [] self.op = "SrcSubDst" -> FSub(src_term, dst_term)
          [] self.op = "DstSubSrc" -> FSub(dst_term, src_term)

\* BlendAttachment::blend_colors; self.color and self.alpha are options.
blend_colors(self, src, dst) ==
    LET src_channels == color_to_channels(src)
        dst_channels == color_to_channels(dst)
        context == [src_alpha |-> src_channels[4], dst_alpha |-> dst_channels[4]]
    IN  channels_to_color([i \in 1..4 |->
            LET component_op == IF i = 4 THEN self.alpha ELSE self.color
            IN  IF IsSome(component_op)
                THEN blend(Unwrap(component_op), src_channels[i], dst_channels[i], context)
                ELSE src_channels[i]])

\* -------------------------------------------------------------- DepthMode
should_test(mode) == IF mode = "DontCare" THEN FALSE ELSE TRUE
should_write_tested(mode) == IF mode = "DontCare" THEN FALSE ELSE TRUE
should_write(mode) == IF mode = "Write" THEN TRUE ELSE FALSE

\* ----------------------------------------------------------------- geometry
Point2(x, y) == [x |-> x, y |-> y]
Point3(x, y, z) == [x |-> x, y |-> y, z |-> z]

\* gen_scissor: the loop over the points, then the Scissor it builds.
RECURSIVE gen_scissor_loop(_, _, _, _, _, _, _, _)
gen_scissor_loop(uv, k, x0, y0, x1, y1, max_width, max_height) ==
    IF k > Len(uv)
    THEN Scissor(x0, y0, x1 - x0, y1 - y0)
    ELSE
        LET x == FMul(FClamp(uv[k].x, F32Zero, F32One), F32(max_width, 1))
            y == FMul(FClamp(uv[k].y, F32Zero, F32One), F32(max_height, 1))
        IN  Bind(<<Min(FloorAsUsize(x), x0), Min(FloorAsUsize(y), y0),
                   Max(CeilAsUsize(x), x1), Max(CeilAsUsize(y), y1)>>,
                 LAMBDA m : gen_scissor_loop(uv, k + 1, m[1], m[2], m[3], m[4],
                                             max_width, max_height))

gen_scissor(uv, max_width, max_height) ==
    gen_scissor_loop(uv, 1, max_width, max_height, 0, 0, max_width, max_height)

Vector2(x, y) == [x |-> x, y |-> y]
rotate_cw(v) == Vector2(FNeg(v.y), v.x)
rotate_ccw(v) == Vector2(v.y, FNeg(v.x))
VSub(b, a) == Vector2(FSub(b.x, a.x), FSub(b.y, a.y))
dot(u, v) == FAdd(FMul(u.x, v.x), FMul(u.y, v.y))

signed_triangle_area_swapped(points, winding) ==
    LET a == points[1]
        b == points[2]
        c == points[3]
        ab == VSub(b, a)
        ac == VSub(c, a)
        normal == IF winding = "CounterClockwise" THEN rotate_cw(ab) ELSE rotate_ccw(ab)
    IN  FDiv(dot(ac, normal), F32(2, 1))

\* signed_triangle_area
signed_triangle_area(points, winding) ==
    LET a == points[1]
        b == points[2]
        c == points[3]
        ab == VSub(b, a)
        ac == VSub(c, a)
        normal == IF winding = "CounterClockwise" THEN rotate_ccw(ab) ELSE rotate_cw(ab)
    IN  FDiv(dot(ac, normal), F32(2, 1))

VERTICES_PER_FACE == 3

FSum3(v) == FAdd(FAdd(FAdd(F32Zero, v[1]), v[2]), v[3])

\* The body of process_fragment_geometry once the three areas are known.
fragment_info(areas, triangle, pipeline) ==
    LET areas_valid == [i \in 1..VERTICES_PER_FACE |-> FGe(areas[i], F32Zero)]
        front == \A i \in 1..VERTICES_PER_FACE : areas_valid[i]
        should_keep == IF ~pipeline.cull_back
                       THEN front \/ (\A i \in 1..VERTICES_PER_FACE : ~areas_valid[i])
                       ELSE front
    IN  IF should_keep
        THEN
            Bind(FSum3(areas), LAMBDA area_sum :
            Bind([i \in 1..VERTICES_PER_FACE |-> FDiv(areas[i], area_sum)],
                 LAMBDA flat_weights :
            Bind([i \in 1..VERTICES_PER_FACE |-> FDiv(F32One, triangle[i].z)],
                 LAMBDA inverse_depths :
            Bind(FSum3([i \in 1..VERTICES_PER_FACE |->
                           FMul(flat_weights[i], inverse_depths[i])]),
                 LAMBDA inverse_depth :
                Some([depth |-> FDiv(F32One, inverse_depth),
                      weights |-> [i \in 1..VERTICES_PER_FACE |->
                                      FDiv(FMul(flat_weights[i], inverse_depths[i]),
                                           inverse_depth)]])))))
        ELSE None

\* process_fragment_geometry: None, or Some(FragmentInfo).
process_fragment_geometry(triangle, point, pipeline) ==
    LET screen_points == [i \in 1..VERTICES_PER_FACE |->
                             Point2(triangle[i].x, triangle[i].y)]
    IN  Bind([i \in 1..VERTICES_PER_FACE |->
                 LET a == screen_points[(i % VERTICES_PER_FACE) + 1]
                     b == screen_points[((i + 1) % VERTICES_PER_FACE) + 1]
                 IN  signed_triangle_area(<<a, b, point>>, pipeline.winding_order)],
             LAMBDA areas : fragment_info(areas, triangle, pipeline))

\* depth_test: FALSE when the fragment is to be discarded.  The scanline's
\* depth slice is read in the framebuffer f it borrows from.
depth_test(x, current_depth, scanline, f) ==
    IF IsSome(scanline.depth)
    THEN LET closest_depth == slice_get(Unwrap(f.depth), Unwrap(scanline.depth), x)
         IN  FLe(current_depth, closest_depth)
    ELSE TRUE

\* should_discard_fragment
should_discard_fragment(x, depth_mode, current_depth, scanline, f) ==
    IF FLt(current_depth, F32Zero)
    THEN TRUE
    ELSE should_test(depth_mode) /\ ~depth_test(x, current_depth, scanline, f)

\* ------------------------------------------------------------------ shader
\* The vertex and fragment stages are the application's.  The model's shader
\* is the one of src/src/main.rs: the vertex stage looks the vertex up in the
\* uniform's table and moves it by the instance's model matrix, the fragment
\* stage returns the instance's colour.
\* Matrix4::new_translation(v) * p.to_homogeneous(), back from homogeneous
\* coordinates (w stays 1).
new_translation_mul(v, p) ==
    Point3(FAdd(p.x, v.x), FAdd(p.y, v.y), FAdd(p.z, v.z))

vertex_stage(context) ==
    LET position == context.data.vertices[context.vertex_id + 1].position
        instance == context.data.instances[context.instance_id + 1]
    IN  [position |-> new_translation_mul(instance.model, position)]

fragment_stage(context) ==
    context.data.instances[context.instance_id + 1].color

\* render_fragment: the framebuffer after the writes through the scanline,
\* and whether it panicked.  blending[i] is an indexing of a Vec: with fewer
\* blend attachments than colour slices it panics at i = blending.len(),
\* after the writes to the attachments before i and before the depth write.
render_fragment(x, context, scanline, point, frag, f) ==
    LET color == fragment_stage([instance_id |-> context.instance_id,
                                 position |-> Point3(point.x, point.y, frag.depth),
                                 data |-> context.call.data])
        blending == context.call.pipeline.blending
        out_of_bounds == IsSome(blending) /\ Len(Unwrap(blending)) < Len(scanline.color)
        written == IF out_of_bounds THEN Len(Unwrap(blending)) ELSE Len(scanline.color)
    IN  [fb |-> [f EXCEPT
            !.color = [i \in 1..Len(f.color) |->
                IF i <= written
                THEN slice_set(f.color[i], scanline.color[i], x,
                        IF IsSome(blending)
                        THEN blend_colors(Unwrap(blending)[i], color,
                                          slice_get(f.color[i], scanline.color[i], x))
                        ELSE color)
                ELSE f.color[i]],
            !.depth = IF /\ ~out_of_bounds
                         /\ should_write(context.call.pipeline.depth)
                         /\ IsSome(scanline.depth)
                      THEN Some(slice_set(Unwrap(f.depth), Unwrap(scanline.depth),
                                          x, frag.depth))
                      ELSE f.depth],
         panic |-> out_of_bounds]

\* The pixel centre in NDC that process_pixel computes.
pixel_center(x, y, fb_width, fb_height) ==
    Point2(FSub(FMul(FDiv(FAdd(F32(x, 1), F32(1, 2)), F32(fb_width, 1)), F32(2, 1)),
                F32One),
           FSub(FMul(FDiv(FAdd(F32(y, 1), F32(1, 2)), F32(fb_height, 1)), F32(2, 1)),
                F32One))

\* process_pixel: the framebuffer f after the pixel (x, scanline.y), and
\* whether it panicked.
process_pixel(x, context, scanline, f) ==
    Bind(pixel_center(x, scanline.y, context.fb_width, context.fb_height),
         LAMBDA point :
    Bind(process_fragment_geometry(
             [i \in 1..VERTICES_PER_FACE |-> context.vertex_output[i].position],
             point, context.call.pipeline),
         LAMBDA frag :
        IF IsSome(frag)
        THEN IF should_discard_fragment(x, context.call.pipeline.depth,
                                        Unwrap(frag).depth, scanline, f)
             THEN [fb |-> f, panic |-> FALSE]
             ELSE render_fragment(x, context, scanline, point, Unwrap(frag), f)
        ELSE [fb |-> f, panic |-> FALSE]))

\* --------------------------------------------------------------- Rasterizer
\* RenderStats::default()
RenderStats_default ==
    [faces_processed |-> 0, faces_rendered |-> 0, instances |-> 0, calls |-> 0]

\* Rasterizer::new
Rasterizer_new == [stats |-> RenderStats_default, render_targets |-> <<>>]

Ok(self) == [res |-> "Ok", self |-> self, val |-> None]
Err(e, self) == [res |-> e, self |-> self, val |-> None]

new_frame_reset_first(self) ==
    IF self.render_targets # <<>>
    THEN Err("RenderTargetUnfinished", [self EXCEPT !.stats = RenderStats_default])
    ELSE Ok([self EXCEPT !.stats = RenderStats_default])

new_frame_keeps_instances(self) ==
    IF self.render_targets # <<>>
    THEN Err("RenderTargetUnfinished", self)
    ELSE Ok([self EXCEPT !.stats = [RenderStats_default EXCEPT
                                       !.instances = self.stats.instances]])

\* Rasterizer::new_frame
new_frame(self) ==
    IF self.render_targets # <<>>
    THEN Err("RenderTargetUnfinished", self)
    ELSE Ok([self EXCEPT !.stats = RenderStats_default])

\* Rasterizer::push_render_target (LinkedList::push_back)
push_render_target(self, target) ==
    Ok([self EXCEPT !.render_targets = Append(@, target)])

pop_render_target_front(self) ==
    IF self.render_targets # <<>>
    THEN Ok([self EXCEPT !.render_targets = Tail(@)])
    ELSE Err("NoRenderTarget", self)

\* Rasterizer::pop_render_target (LinkedList::pop_back)
pop_render_target(self) ==
    IF self.render_targets # <<>>
    THEN Ok([self EXCEPT !.render_targets = SubSeq(@, 1, Len(@) - 1)])
    ELSE Err("NoRenderTarget", self)

\* Rasterizer::current_render_target (LinkedList::back, cloned)
current_render_target(self) ==
    IF self.render_targets # <<>>
    THEN [res |-> "Ok", self |-> self,
          val |-> Some(self.render_targets[Len(self.render_targets)])]
    ELSE Err("NoRenderTarget", self)

\* The pixel loop of one scanline task: delta_x in 0..scissor.width.
RECURSIVE scanline_task(_, _, _, _, _)
scanline_task(fc, scissor, scanline, delta_x, f) ==
    IF delta_x >= scissor.width
    THEN [fb |-> f, panic |-> FALSE]
    ELSE Bind(process_pixel(scissor.x + delta_x, fc, scanline, f),
              LAMBDA g : IF g.panic THEN g
                         ELSE scanline_task(fc, scissor, scanline, delta_x + 1, g.fb))

\* par_iter_mut().for_each over the scanlines, joined before it returns.  The
\* tasks own disjoint rows, so they are applied one after the other.  A panic
\* of a task is raised again by for_each; the pixels kept here are those of
\* the rows before it (the other tasks may have written more: the mutex
\* guarding the framebuffer is poisoned by the unwinding call).
RECURSIVE for_each_scanline(_, _, _, _, _)
for_each_scanline(fc, scissor, lines, k, f) ==
    IF k > Len(lines)
    THEN [fb |-> f, panic |-> FALSE]
    ELSE Bind(scanline_task(fc, scissor, lines[k], 0, f),
              LAMBDA g : IF g.panic THEN g
                         ELSE for_each_scanline(fc, scissor, lines, k + 1, g.fb))

count_face_per_scanline(counters, lines) ==
    [counters EXCEPT !.faces_rendered = @ + Len(lines)]

\* self.stats.faces_rendered += 1, after the scanlines of a face were joined.
count_face_rendered(counters, lines) ==
    [counters EXCEPT !.faces_rendered = @ + 1]

\* The part of render_face that runs when a final scissor exists.
\* st.req records the scanline range it asked the framebuffer for.
render_scissored(st, scissor, fc) ==
    Bind(scanlines(st.fb, scissor.y, scissor.height), LAMBDA r :
        IF r.panic
        THEN [st EXCEPT !.panic = TRUE,
                        !.req = Some([offset |-> scissor.y, count |-> scissor.height])]
        ELSE Bind(for_each_scanline(fc, scissor, r.lines, 1, st.fb), LAMBDA w :
            IF w.panic
            THEN [st EXCEPT
                    !.fb = w.fb,
                    !.panic = TRUE,
                    !.req = Some([offset |-> scissor.y, count |-> scissor.height])]
            ELSE [st EXCEPT
                    !.fb = w.fb,
                    !.stats = count_face_rendered(st.stats, r.lines),
                    !.req = Some([offset |-> scissor.y, count |-> scissor.height])]))

\* The vertex stage's three outputs for a face.
face_vertices(instance_id, face_index, call) ==
    LET index_offset == face_index * VERTICES_PER_FACE
    IN  [i \in 1..VERTICES_PER_FACE |->
            vertex_stage([vertex_id |-> call.indices[index_offset + i],
                          instance_id |-> instance_id,
                          data |-> call.data])]

\* The scissor render_face ends with: None when the face is skipped.
face_scissor(vertex_output, call, fb_width, fb_height) ==
    LET uv == [i \in 1..VERTICES_PER_FACE |->
                  Point2(FDiv(FAdd(vertex_output[i].position.x, F32One), F32(2, 1)),
                         FDiv(FAdd(vertex_output[i].position.y, F32One), F32(2, 1)))]
        generated_scissor == gen_scissor(uv, fb_width, fb_height)
    IN  IF IsSome(call.scissor)
        THEN intersect_with(generated_scissor, Unwrap(call.scissor))
        ELSE Some(generated_scissor)

\* Rasterizer::render_face on st = [stats, fb, panic, req].
render_face(st, instance_id, face_index, call) ==
    LET fb_width == size(st.fb)[1]
        fb_height == size(st.fb)[2]
    IN  Bind(face_vertices(instance_id, face_index, call), LAMBDA vertex_output :
        Bind(face_scissor(vertex_output, call, fb_width, fb_height),
             LAMBDA final_scissor :
            IF IsSome(final_scissor)
            THEN render_scissored(st, Unwrap(final_scissor),
                     [instance_id |-> instance_id, call |-> call,
                      vertex_output |-> vertex_output,
                      fb_width |-> fb_width, fb_height |-> fb_height])
            ELSE st))

face_count_off_by_one(call) ==
    IF Len(call.indices) \div VERTICES_PER_FACE = 0 THEN 0
    ELSE Len(call.indices) \div VERTICES_PER_FACE - 1

\* let face_count = call.indices.len() / VERTICES_PER_FACE
face_count(call) == Len(call.indices) \div VERTICES_PER_FACE

\* for j in 0..face_count { render_face; faces_processed += 1 }
RECURSIVE face_loop(_, _, _, _)
face_loop(st, i, j, call) ==
    IF st.panic \/ j >= face_count(call)
    THEN st
    ELSE Bind(render_face(st, call.first_instance + i, j, call), LAMBDA r :
             IF r.panic
             THEN r
             ELSE face_loop([r EXCEPT !.stats.faces_processed = @ + 1], i, j + 1, call))

\* for i in 0..call.instance_count { faces; instances += 1 }
RECURSIVE instance_loop(_, _, _)
instance_loop(st, i, call) ==
    IF st.panic \/ i >= call.instance_count
    THEN st
    ELSE Bind(face_loop(st, i, 0, call), LAMBDA r :
             IF r.panic
             THEN r
             ELSE instance_loop([r EXCEPT !.stats.instances = @ + 1], i + 1, call))

\* Rasterizer::render_indexed.  fbs maps each handle to the framebuffer
\* behind its mutex; the call locks the top one for its whole duration.  A
\* panic leaves the counters and pixels as they were when it was raised.
\* req is the last scanline range a face of the call requested, if any.
render_indexed(self, fbs, call) ==
    LET top == current_render_target(self)
    IN  IF top.res # "Ok"
        THEN [res |-> top.res, self |-> self, fbs |-> fbs, req |-> None]
        ELSE
            LET h == Unwrap(top.val)
            IN  Bind(instance_loop([stats |-> self.stats, fb |-> fbs[h],
                                    panic |-> FALSE, req |-> None], 0, call),
                     LAMBDA st :
                IF st.panic
                THEN [res |-> "Panic",
                      self |-> [self EXCEPT !.stats = st.stats],
                      fbs |-> [fbs EXCEPT ![h] = st.fb], req |-> st.req]
                ELSE [res |-> "Ok",
                      self |-> [self EXCEPT !.stats =
                                   [st.stats EXCEPT !.calls = @ + 1]],
                      fbs |-> [fbs EXCEPT ![h] = st.fb], req |-> st.req])

\* --------------------------------------------------- framebuffer behaviours
ClearValue(color, depth) == [color |-> color, depth |-> depth]
\* examples/dump.rs clears to 0x787878FF and depth 1.0.
FbClearValues == {ClearValue(<<120, 120, 120, 255>>, F32One)}
\* What FbWrite stores through a scanline.
FbWriteValue == [color |-> <<0, 0, 0, 255>>, depth |-> F32(1, 2)]

InitFbShape(w, h, k, d) ==
    /\ fb = Framebuffer_new(w, h, k, d)
    /\ fbshape = [width |-> w, height |-> h, num_color |-> k, has_depth |-> d]
    /\ fblast = [op |-> "new", res |-> "Ok", a |-> w, b |-> h]
    /\ view = <<>>
    /\ fbsteps = 0

InitFB ==
    /\ \E w \in 0..MaxW, h \in 0..MaxH, k \in 0..MaxK, d \in BOOLEAN :
          InitFbShape(w, h, k, d)

FbRunning == fblast.res # "Panic" /\ fbsteps < MaxFbSteps

\* fb.clear(&v); any outstanding scanline view has been dropped.
FbClear(v) ==
    /\ FbRunning
    /\ fb' = clear(fb, v)
    /\ view' = <<>>
    /\ fblast' = [op |-> "clear", res |-> "Ok", a |-> v.color, b |-> v.depth]
    /\ fbsteps' = fbsteps + 1
    /\ fbshape' = fbshape
    /\ UNCHANGED <<rvars, avars, tvars>>

\* fb.scanlines(offset, count)
FbScanlines(offset, count) ==
    /\ FbRunning
    /\ LET r == scanlines(fb, offset, count)
       IN  /\ view' = r.lines
           /\ fblast' = [op |-> "scanlines",
                         res |-> IF r.panic THEN "Panic" ELSE "Ok",
                         a |-> offset, b |-> count]
    /\ fb' = fb
    /\ fbsteps' = fbsteps + 1
    /\ fbshape' = fbshape
    /\ UNCHANGED <<rvars, avars, tvars>>

\* The holder of the view stores a colour in every colour slice of entry e at
\* column x, and a depth in its depth slice (as render_fragment does).
FbWrite(e, x) ==
    /\ FbRunning
    /\ e \in 1..Len(view)
    /\ x \in 0..(fb.width - 1)
    /\ LET line == view[e]
       IN  fb' = [fb EXCEPT
                    !.color = [i \in 1..Len(fb.color) |->
                                  slice_set(fb.color[i], line.color[i], x, FbWriteValue.color)],
                    !.depth = IF IsSome(line.depth)
                              THEN Some(slice_set(Unwrap(fb.depth), Unwrap(line.depth),
                                                  x, FbWriteValue.depth))
                              ELSE fb.depth]
    /\ fblast' = [op |-> "write", res |-> "Ok", a |-> e, b |-> x]
    /\ view' = view
    /\ fbsteps' = fbsteps + 1
    /\ fbshape' = fbshape
    /\ UNCHANGED <<rvars, avars, tvars>>

NextFB ==
    \/ \E v \in FbClearValues : FbClear(v)
    \/ \E offset \in 0..(MaxH + 1), count \in 0..(MaxH + 1) : FbScanlines(offset, count)
    \/ \E e \in 1..MaxH, x \in 0..(MaxW - 1) : FbWrite(e, x)


\* ------------------------------------------------------ rasterizer behaviours
\* The application's scene (the uniform of its shader), coordinates in
\* halves.  Vertices 0..2 are the triangle of src/src/main.rs, (0,-0.5)
\* (0.5,0.5) (-0.5,0.5); 3..5 span a triangle that covers the whole viewport;
\* 6..8 lie below the viewport (y > 1).  All at z = 0.
Vertex(x, y) == [position |-> Point3(F32(x, 2), F32(y, 2), F32Zero)]
SceneVertices ==
    << Vertex(0, -1), Vertex(1, 1), Vertex(-1, 1),
       Vertex(-2, -2), Vertex(6, -2), Vertex(-2, 6),
       Vertex(0, 3), Vertex(1, 4), Vertex(-1, 4) >>

\* Two instances, moved along z only: a red one to depth 0.5, a green one to
\* depth 0.25.
Instance(model, color) == [model |-> model, color |-> color]
SceneInstances ==
    << Instance(Point3(F32Zero, F32Zero, F32(1, 2)), <<255, 0, 0, 255>>),
       Instance(Point3(F32Zero, F32Zero, F32(1, 4)), <<0, 255, 0, 255>>) >>
SceneData == [vertices |-> SceneVertices, instances |-> SceneInstances]

Pipeline(depth, cull_back, winding_order, blending) ==
    [depth |-> depth, cull_back |-> cull_back,
     winding_order |-> winding_order, blending |-> blending]

IndexedRenderCall(pipeline, instance_count, scissor, indices) ==
    [pipeline |-> pipeline, vertex_offset |-> 0, first_instance |-> 0,
     instance_count |-> instance_count, scissor |-> scissor,
     indices |-> indices, data |-> SceneData]

\* The pipeline of examples/dump.rs, and one that neither tests depth nor culls.
PipelineWrite == Pipeline("Write", TRUE, "CounterClockwise", None)
PipelineDontCare == Pipeline("DontCare", FALSE, "CounterClockwise", None)
SceneScissor == Some(Scissor(0, 0, 1, 1))

\* The calls the application makes: the call of examples/dump.rs; two faces
\* under a user scissor; a face below the viewport under a user scissor; the
\* dump.rs face followed by a face below the viewport, with no user scissor;
\* one face and a trailing index, for no and for two instances.
SceneCalls ==
    { IndexedRenderCall(PipelineWrite, 1, None, <<0, 2, 1>>),
      IndexedRenderCall(PipelineDontCare, 1, SceneScissor, <<3, 5, 4, 0, 1, 2>>),
      IndexedRenderCall(PipelineDontCare, 1, SceneScissor, <<6, 8, 7>>),
      IndexedRenderCall(PipelineDontCare, 1, None, <<0, 2, 1, 6, 8, 7>>),
      IndexedRenderCall(PipelineDontCare, 0, None, <<0, 2, 1, 0>>),
      IndexedRenderCall(PipelineDontCare, 2, None, <<0, 2, 1, 0>>) }

\* The application's framebuffers, built and cleared as examples/dump.rs does:
\* handle 1 is 2x2 with one colour attachment and depth, handle 2 is 1x1 with
\* two colour attachments and no depth.
SceneClear == ClearValue(<<120, 120, 120, 255>>, F32One)
Handles == {1, 2}
SceneTargets ==
    [h \in Handles |->
        IF h = 1 THEN clear(Framebuffer_new(2, 2, 1, TRUE), SceneClear)
        ELSE clear(Framebuffer_new(1, 1, 2, FALSE), SceneClear)]

Self == [stats |-> stats, render_targets |-> render_targets]

InitR ==
    /\ stats = Rasterizer_new.stats
    /\ render_targets = Rasterizer_new.render_targets
    /\ targets = SceneTargets
    /\ last = [op |-> "new", res |-> "Ok", arg |-> None]

\* A panic unwinds out of the call and ends the program.
Running == last.res # "Panic"

Returned(op, r, arg) ==
    /\ stats' = r.self.stats
    /\ render_targets' = r.self.render_targets
    /\ last' = [op |-> op, res |-> r.res, arg |-> arg]
    /\ UNCHANGED <<fbvars, avars, tvars>>

NewFrame ==
    /\ Running
    /\ Returned("new_frame", new_frame(Self), Some(stats))
    /\ targets' = targets

PushRenderTarget(h) ==
    /\ Running
    /\ Len(render_targets) < MaxStack
    /\ Returned("push_render_target", push_render_target(Self, h), Some(h))
    /\ targets' = targets

PopRenderTarget ==
    /\ Running
    /\ Returned("pop_render_target", pop_render_target(Self), None)
    /\ targets' = targets

CurrentRenderTarget ==
    /\ Running
    /\ LET r == current_render_target(Self)
       IN  Returned("current_render_target", r, r.val)
    /\ targets' = targets

RenderIndexed(call) ==
    /\ Running
    /\ stats.calls < MaxCalls
    /\ LET r == render_indexed(Self, targets, call)
       IN  /\ Returned("render_indexed", r,
                       Some([n |-> Len(call.indices), c |-> call.instance_count,
                             req |-> r.req]))
           /\ targets' = r.fbs

NextR ==
    \/ NewFrame
    \/ \E h \in Handles : PushRenderTarget(h)
    \/ PopRenderTarget
    \/ CurrentRenderTarget
    \/ \E call \in SceneCalls : RenderIndexed(call)

\* The rasterizer, its render targets and the calls of the application.  (The
\* variables of the framebuffer specification stay as they start.)
\* No function is applied on its own.
\* No call is in progress, the mutex is free and clean, nothing was seen.
InitNoThreads ==
    /\ par = None
    /\ mutex = [holder |-> "none", poisoned |-> FALSE]
    /\ presenter = [state |-> "idle", obs |-> None]
    /\ boundary = None

InitNoApply == input = None /\ output = None /\ InitNoThreads

Init == InitR /\ InitFbShape(0, 0, 0, FALSE) /\ InitNoApply
Next == NextR
Spec == Init /\ [][Next]_vars

\* One framebuffer of every shape, cleared, viewed and written through views.
InitSpecFB == InitFB /\ InitR /\ InitNoApply
SpecFB == InitSpecFB /\ [][NextFB]_vars

\* ------------------------------------------------ functions on their own
\* A function is applied once to arguments drawn from a bounded set: input
\* holds the arguments, output what it returned.
Applied == output # None
Apply(r) ==
    /\ output = None
    /\ output' = Some(r)
    /\ input' = input
    /\ UNCHANGED <<fbvars, rvars, tvars>>
InitApply(inputs) ==
    /\ input \in inputs
    /\ output = None
    /\ InitR
    /\ InitFbShape(0, 0, 0, FALSE)
    /\ InitNoThreads

\* Scissors with origin and extent in 0..MaxCoord.
MaxCoord == 2
Scissors ==
    { Scissor(x, y, w, h) : x \in 0..MaxCoord, y \in 0..MaxCoord,
                            w \in 0..MaxCoord, h \in 0..MaxCoord }

\* a.intersect_with(&b), b.intersect_with(&a) and a.intersect_with(&a)
InitScissor == InitApply({ [a |-> a, b |-> b] : a \in Scissors, b \in Scissors })
IntersectWith ==
    Apply([ab |-> intersect_with(input.a, input.b),
           ba |-> intersect_with(input.b, input.a),
           aa |-> intersect_with(input.a, input.a)])
NextScissor == IntersectWith
SpecScissor == InitScissor /\ [][NextScissor]_vars

\* One face drawn by one render_indexed call into a cleared 3x3 framebuffer
\* with one colour attachment and depth.  The vertices are drawn from a grid:
\* x in {-1, -1/2, 0, 1} and y in -1..MaxNdcY (y > 1 is below the viewport),
\* z = 0, moved to depth 0.5 by instance 0.
MaxNdcY == 2
FacePoints ==
    { [position |-> Point3(F32(x, 2), F32(y, 1), F32Zero)] :
          x \in {-2, -1, 0, 2}, y \in -1..MaxNdcY }
FacePipelines ==
    { PipelineDontCare, PipelineWrite,
      Pipeline("DontCare", TRUE, "CounterClockwise", None) }
\* No user scissor, or one that reaches beyond the framebuffer.
FaceScissors == { None, Some(Scissor(1, 1, 3, 3)) }
FaceInputs ==
    { [vertices |-> <<a, b, c>>, pipeline |-> p, scissor |-> s] :
          a \in FacePoints, b \in FacePoints, c \in FacePoints,
          p \in FacePipelines, s \in FaceScissors }
FaceCall(in) ==
    [pipeline |-> in.pipeline, vertex_offset |-> 0, first_instance |-> 0,
     instance_count |-> 1, scissor |-> in.scissor, indices |-> <<0, 1, 2>>,
     data |-> [vertices |-> in.vertices, instances |-> SceneInstances]]
FaceTarget == clear(Framebuffer_new(3, 3, 1, TRUE), SceneClear)

\* rast.push_render_target(arc); rast.render_indexed(&call)
InitFace == InitApply(FaceInputs)
DrawFace ==
    Apply(render_indexed(push_render_target(Rasterizer_new, 1).self,
                         [h \in {1} |-> FaceTarget], FaceCall(input)))
NextFace == DrawFace
SpecFace == InitFace /\ [][NextFace]_vars

\* Overlapping faces drawn one call after the other into a 1x1 framebuffer,
\* with or without a depth attachment, cleared to depth 1.  Every call draws
\* one face that covers the pixel centre: a triangle over the whole viewport,
\* or a degenerate one (three collinear vertices on a line through the
\* centre).  The instance gives the face its depth and colour.
MaxDraws == 2
DepthVertices == << Vertex(-2, -2), Vertex(6, -2), Vertex(-2, 6),
                    Vertex(-2, -2), Vertex(0, 0), Vertex(2, 2) >>
DepthInstances ==
    << Instance(Point3(F32Zero, F32Zero, F32(-1, 2)), <<10, 0, 0, 255>>),
       Instance(Point3(F32Zero, F32Zero, F32(1, 4)), <<20, 0, 0, 255>>),
       Instance(Point3(F32Zero, F32Zero, F32(1, 2)), <<30, 0, 0, 255>>),
       Instance(Point3(F32Zero, F32Zero, F32One), <<40, 0, 0, 255>>) >>
DepthModes == {"DontCare", "Test", "Write"}
DepthCall(mode, first_instance, indices) ==
    [pipeline |-> Pipeline(mode, FALSE, "CounterClockwise", None),
     vertex_offset |-> 0, first_instance |-> first_instance, instance_count |-> 1,
     scissor |-> None, indices |-> indices,
     data |-> [vertices |-> DepthVertices, instances |-> DepthInstances]]
DepthFaces == { <<0, 2, 1>>, <<3, 4, 5>> }

InitDepth ==
    /\ \E d \in BOOLEAN :
          targets = [h \in {1} |-> clear(Framebuffer_new(1, 1, 1, d), SceneClear)]
    /\ stats = Rasterizer_new.stats
    /\ render_targets = <<1>>
    /\ last = [op |-> "push_render_target", res |-> "Ok", arg |-> Some(1)]
    /\ InitFbShape(0, 0, 0, FALSE)
    /\ InitNoApply

\* rast.render_indexed(&call); last.arg keeps the call's depth mode, instance
\* and face, and the framebuffer as the call found it.
DepthDraw(mode, k, face) ==
    /\ Running
    /\ stats.calls < MaxDraws
    /\ LET r == render_indexed(Self, targets, DepthCall(mode, k, face))
       IN  /\ Returned("render_indexed", r,
                       Some([mode |-> mode, instance |-> k, face |-> face,
                             before |-> targets[1]]))
           /\ targets' = r.fbs

NextDepth ==
    \E mode \in DepthModes, k \in 0..(Len(DepthInstances) - 1), face \in DepthFaces :
        DepthDraw(mode, k, face)
SpecDepth == InitDepth /\ [][NextDepth]_vars

\* One covering face drawn with blending into a cleared 1x1 framebuffer with
\* k colour attachments and no depth.  A pipeline carries no blending or a
\* vector of blend attachments of any length.
MaxAttachments == 2
ComponentBlendOp(op, src_factor, dst_factor) ==
    [op |-> op, src_factor |-> src_factor, dst_factor |-> dst_factor]
BlendAttachment(color, alpha) == [color |-> color, alpha |-> alpha]
AttachmentBlends ==
    { BlendAttachment(None, None),
      BlendAttachment(Some(ComponentBlendOp("Add", "One", "One")),
                      Some(ComponentBlendOp("Add", "One", "One"))),
      BlendAttachment(Some(ComponentBlendOp("Add", "SrcAlpha", "OneMinusSrcAlpha")),
                      None) }
BlendVectors ==
    UNION { [1..n -> AttachmentBlends] : n \in 0..MaxAttachments }
AttachmentInstances ==
    << Instance(Point3(F32Zero, F32Zero, F32(1, 2)), <<64, 64, 64, 64>>),
       Instance(Point3(F32Zero, F32Zero, F32(1, 2)), <<200, 16, 0, 128>>),
       Instance(Point3(F32Zero, F32Zero, F32(1, 2)), <<255, 255, 255, 255>>) >>
AttachmentInputs ==
    { [k |-> k, blending |-> b, instance |-> n] :
          k \in 1..MaxAttachments,
          b \in {None} \cup { Some(v) : v \in BlendVectors },
          n \in 0..(Len(AttachmentInstances) - 1) }
AttachmentCall(in) ==
    [pipeline |-> Pipeline("DontCare", FALSE, "CounterClockwise", in.blending),
     vertex_offset |-> 0, first_instance |-> in.instance, instance_count |-> 1,
     scissor |-> None, indices |-> <<0, 2, 1>>,
     data |-> [vertices |-> DepthVertices, instances |-> AttachmentInstances]]
AttachmentTarget(k) == clear(Framebuffer_new(1, 1, k, FALSE), SceneClear)

InitAttachments == InitApply(AttachmentInputs)
DrawBlended ==
    Apply(render_indexed(push_render_target(Rasterizer_new, 1).self,
                         [h \in {1} |-> AttachmentTarget(input.k)],
                         AttachmentCall(input)))
NextAttachments == DrawBlended
SpecAttachments == InitAttachments /\ [][NextAttachments]_vars

\* blend_colors applied to a source and a destination colour under every
\* blend operation and factor.  The three colour channels carry the same
\* byte; the alpha channel is blended as the colour channels are, or copied
\* from the source.  (Bytes over 256, their products with a coefficient and
\* the sums of two such products are exact in f32, so the arithmetic of the
\* code is the arithmetic of rationals.)
BlendBytes == {0, 16, 32, 64, 128, 255}
AlphaBytes == {64, 255}
BlendOp == {"Add", "SrcSubDst", "DstSubSrc"}
BlendFactor ==
    {"Zero", "One", "SrcAlpha", "OneMinusSrcAlpha", "DstAlpha", "OneMinusDstAlpha"}
BlendInputs ==
    { [src |-> <<s, s, s, sa>>, dst |-> <<d, d, d, da>>,
       attachment |-> BlendAttachment(Some(ComponentBlendOp(op, sf, df)),
                                      IF alpha THEN Some(ComponentBlendOp(op, sf, df))
                                               ELSE None)] :
          s \in BlendBytes, d \in BlendBytes, sa \in AlphaBytes, da \in AlphaBytes,
          op \in BlendOp, sf \in BlendFactor, df \in BlendFactor, alpha \in BOOLEAN }

InitBlend == InitApply(BlendInputs)
BlendColors == Apply(blend_colors(input.attachment, input.src, input.dst))
NextBlend == BlendColors
SpecBlend == InitBlend /\ [][NextBlend]_vars

\* ------------------------------------------------------- threads of a call
\* render_indexed step by step, beside another holder of a clone of the
\* handle.  The call locks the top framebuffer, walks instances and faces,
\* and for each face with a final scissor hands one task per scanline to the
\* worker pool; the tasks run interleaved, one pixel at a step, and for_each
\* returns when all of them are done.  The other holder (a presenter, as
\* GraphicsContext::present of examples/gui.rs) locks the handle with
\* lock().unwrap(), copies the framebuffer and releases it.
ThreadTarget == clear(Framebuffer_new(2, 2, 1, TRUE), SceneClear)
ThreadCalls ==
    SceneCalls \cup { IndexedRenderCall(PipelineWrite, 2, None, <<3, 5, 4>>) }
ThreadTop == render_targets[Len(render_targets)]
Pixels(f) == (0..(f.width - 1)) \X (0..(f.height - 1))

\* Mutex::lock returns once no other thread holds the guard.
can_lock_always(m) == TRUE
can_lock(m) == m.holder = "none"

\* The loops of render_indexed between two faces: an instance whose faces are
\* done is counted and the next one starts at face 0.
RECURSIVE next_face(_, _)
next_face(call, p) ==
    IF p.i < call.instance_count /\ p.j >= face_count(call)
    THEN next_face(call, [stats |-> [p.stats EXCEPT !.instances = @ + 1],
                          i |-> p.i + 1, j |-> 0])
    ELSE p

\* for_each returns when every scanline task has run its pixel loop to the end.
joined_any(cursors, width) ==
    Len(cursors) = 0 \/ \E k \in 1..Len(cursors) : cursors[k] >= width
joined(cursors, width) == \A k \in 1..Len(cursors) : cursors[k] >= width

InitThreads ==
    /\ targets = [h \in {1} |-> ThreadTarget]
    /\ stats = Rasterizer_new.stats
    /\ render_targets = <<1>>
    /\ last = [op |-> "push_render_target", res |-> "Ok", arg |-> Some(1)]
    /\ InitFbShape(0, 0, 0, FALSE)
    /\ input = None
    /\ output = None
    /\ par = None
    /\ mutex = [holder |-> "none", poisoned |-> FALSE]
    /\ presenter = [state |-> "idle", obs |-> None]
    /\ boundary = ThreadTarget

\* A panic unwinds out of render_indexed: the guard is dropped, which marks
\* the mutex as poisoned, and the framebuffer stays as the panic found it.
RasterizerPanics ==
    /\ last' = [op |-> "render_indexed", res |-> "Panic", arg |-> None]
    /\ mutex' = [holder |-> "none", poisoned |-> TRUE]
    /\ par' = None

\* A face is done: faces_processed += 1, then on to the next face or instance.
FaceDone(p, counters) ==
    LET q == next_face(p.call, [stats |-> [counters EXCEPT !.faces_processed = @ + 1],
                                i |-> p.i, j |-> p.j + 1])
    IN  /\ stats' = q.stats
        /\ par' = Some([p EXCEPT !.i = q.i, !.j = q.j,
                                 !.phase = IF q.i >= p.call.instance_count
                                           THEN "end" ELSE "face"])
        /\ UNCHANGED <<mutex, last>>

\* let top = self.current_render_target()?; let mut framebuffer = top.lock().unwrap();
Begin(call) ==
    /\ Running
    /\ par = None
    /\ stats.calls < MaxCalls
    /\ LET top == current_render_target(Self)
       IN  IF top.res # "Ok"
           THEN /\ last' = [op |-> "render_indexed", res |-> top.res, arg |-> None]
                /\ UNCHANGED <<stats, par, mutex>>
           ELSE /\ can_lock(mutex)
                /\ IF mutex.poisoned
                   THEN RasterizerPanics /\ stats' = stats
                   ELSE LET p == next_face(call, [stats |-> stats, i |-> 0, j |-> 0])
                        IN  /\ mutex' = [mutex EXCEPT !.holder = "rasterizer"]
                            /\ stats' = p.stats
                            /\ par' = Some([call |-> call, i |-> p.i, j |-> p.j,
                                            phase |-> IF p.i >= call.instance_count
                                                      THEN "end" ELSE "face",
                                            face |-> None, cursors |-> <<>>,
                                            by |-> [px \in Pixels(targets[ThreadTop]) |-> <<>>],
                                            panicked |-> FALSE])
                            /\ last' = last
    /\ UNCHANGED <<targets, render_targets, presenter, boundary, fbvars, avars>>

\* render_face up to the dispatch: the vertex stage, the scissors, and
\* framebuffer.scanlines(scissor.y, scissor.height).
StartFace ==
    /\ par # None
    /\ Unwrap(par).phase = "face"
    /\ LET p == Unwrap(par)
           f == targets[ThreadTop]
           vertex_output == face_vertices(p.call.first_instance + p.i, p.j, p.call)
           final_scissor == face_scissor(vertex_output, p.call, size(f)[1], size(f)[2])
       IN  IF ~IsSome(final_scissor)
           THEN FaceDone(p, stats)
           ELSE LET scissor == Unwrap(final_scissor)
                    r == scanlines(f, scissor.y, scissor.height)
                IN  IF r.panic
                    THEN RasterizerPanics /\ stats' = stats
                    ELSE /\ par' = Some([p EXCEPT
                                !.phase = "scan",
                                !.face = Some([fc |-> [instance_id |-> p.call.first_instance + p.i,
                                                       call |-> p.call,
                                                       vertex_output |-> vertex_output,
                                                       fb_width |-> size(f)[1],
                                                       fb_height |-> size(f)[2]],
                                               scissor |-> scissor,
                                               lines |-> r.lines,
                                               start |-> f]),
                                !.cursors = [k \in 1..Len(r.lines) |-> 0],
                                !.by = [px \in Pixels(f) |-> <<>>],
                                !.panicked = FALSE])
                         /\ UNCHANGED <<stats, mutex, last>>
    /\ UNCHANGED <<targets, render_targets, presenter, boundary, fbvars, avars>>

\* One iteration of the pixel loop of scanline task k:
\* process_pixel(scissor.x + delta_x, &fc, scanline)
PixelStep(k) ==
    /\ par # None
    /\ Unwrap(par).phase = "scan"
    /\ k \in 1..Len(Unwrap(par).cursors)
    /\ Unwrap(par).cursors[k] < Unwrap(Unwrap(par).face).scissor.width
    /\ LET p == Unwrap(par)
           face == Unwrap(p.face)
           x == face.scissor.x + p.cursors[k]
           g == process_pixel(x, face.fc, face.lines[k], targets[ThreadTop])
       IN  /\ targets' = [targets EXCEPT ![ThreadTop] = g.fb]
           /\ par' = Some([p EXCEPT
                  !.cursors[k] = IF g.panic THEN face.scissor.width ELSE @ + 1,
                  !.by[<<x, face.lines[k].y>>] = Append(@, k),
                  !.panicked = @ \/ g.panic])
    /\ UNCHANGED <<stats, render_targets, last, mutex, presenter, boundary, fbvars, avars>>

\* for_each returns (or raises a task's panic again); faces_rendered += 1.
Join ==
    /\ par # None
    /\ Unwrap(par).phase = "scan"
    /\ joined(Unwrap(par).cursors, Unwrap(Unwrap(par).face).scissor.width)
    /\ IF Unwrap(par).panicked
       THEN RasterizerPanics /\ stats' = stats
       ELSE FaceDone(Unwrap(par),
                     count_face_rendered(stats, Unwrap(Unwrap(par).face).lines))
    /\ UNCHANGED <<targets, render_targets, presenter, boundary, fbvars, avars>>

\* self.stats.calls += 1; Ok(()) and the guard is dropped.
Finish ==
    /\ par # None
    /\ Unwrap(par).phase = "end"
    /\ stats' = [stats EXCEPT !.calls = @ + 1]
    /\ mutex' = [mutex EXCEPT !.holder = "none"]
    /\ par' = None
    /\ boundary' = targets[ThreadTop]
    /\ last' = [op |-> "render_indexed", res |-> "Ok", arg |-> None]
    /\ UNCHANGED <<targets, render_targets, presenter, fbvars, avars>>

\* The application clears the framebuffer between calls:
\* framebuffer.lock().unwrap().clear(&ClearValue { .. })
ClearTarget ==
    /\ Running
    /\ par = None
    /\ can_lock(mutex)
    /\ ~mutex.poisoned
    /\ targets' = [targets EXCEPT ![ThreadTop] = clear(@, SceneClear)]
    /\ boundary' = clear(targets[ThreadTop], SceneClear)
    /\ last' = [op |-> "clear", res |-> "Ok", arg |-> None]
    /\ UNCHANGED <<stats, render_targets, par, mutex, presenter, fbvars, avars>>

\* let fb = self.framebuffer.lock().unwrap(): the presenter waits for the
\* guard, panics on a poisoned mutex, and otherwise reads the framebuffer.
PresentLock ==
    /\ presenter.state = "idle"
    /\ can_lock(mutex)
    /\ IF mutex.poisoned
       THEN /\ presenter' = [presenter EXCEPT !.state = "panicked"]
            /\ mutex' = mutex
       ELSE /\ presenter' = [state |-> "holding", obs |-> Some(targets[ThreadTop])]
            /\ mutex' = [mutex EXCEPT !.holder = "presenter"]
    /\ UNCHANGED <<rvars, par, boundary, fbvars, avars>>

\* The presenter's guard goes out of scope.
PresentUnlock ==
    /\ presenter.state = "holding"
    /\ presenter' = [presenter EXCEPT !.state = "idle"]
    /\ mutex' = [mutex EXCEPT !.holder = "none"]
    /\ UNCHANGED <<rvars, par, boundary, fbvars, avars>>

NextThreads ==
    \/ \E call \in ThreadCalls : Begin(call)
    \/ StartFace
    \/ \E k \in 1..ThreadTarget.height : PixelStep(k)
    \/ Join
    \/ Finish
    \/ ClearTarget
    \/ PresentLock
    \/ PresentUnlock
SpecThreads == InitThreads /\ [][NextThreads]_vars

\* ------------------------------------------------------------ error surface
\* enum RasterizerError: the error values an operation can return.
RasterizerError == {"NoRenderTarget", "RenderTargetUnfinished"}

\* --------------------------------------------------------- rasterizer claims
Top(stack) == stack[Len(stack)]
StatsZero(st) ==
    st.calls = 0 /\ st.instances = 0 /\ st.faces_processed = 0 /\ st.faces_rendered = 0

\* C1: new_frame succeeds exactly when the render-target stack is empty and
\* render_indexed succeeds exactly when it is non-empty (neither call changes
\* the stack, so the stack after the call is the stack it saw).
C1_SucceedsIffStack ==
    /\ last.op = "new_frame" => ((last.res = "Ok") <=> (render_targets = <<>>))
    /\ last.op = "render_indexed" => ((last.res = "Ok") <=> (render_targets # <<>>))

\* C2: a call that returns NoRenderTarget or RenderTargetUnfinished leaves the
\* stack, the four counters and every pixel of every framebuffer as they were.
C2_ErrorLeavesState ==
    [][last'.res \in RasterizerError =>
          /\ render_targets' = render_targets
          /\ stats' = stats
          /\ targets' = targets]_vars

\* C2 witness: render_indexed refused for want of a render target, after a
\* frame that counted calls and wrote pixels.
C2_Witness ==
    /\ last.op = "render_indexed" /\ last.res = "NoRenderTarget"
    /\ stats.calls > 0 /\ stats.faces_rendered > 0
    /\ targets # SceneTargets

\* C3: the stack is LIFO and its top is the active target.  push appends the
\* handle; a successful pop removes the last handle appended and nothing else;
\* current_render_target returns that handle and changes nothing; a successful
\* render_indexed changes no framebuffer but the one of the top handle.
C3_TopIsActive ==
    [][/\ last'.op = "push_render_target" =>
              render_targets' = Append(render_targets, Unwrap(last'.arg))
       /\ (last'.op = "pop_render_target" /\ last'.res = "Ok") =>
              render_targets = Append(render_targets', Top(render_targets))
       /\ (last'.op = "current_render_target" /\ last'.res = "Ok") =>
              /\ last'.arg = Some(Top(render_targets))
              /\ render_targets' = render_targets
              /\ targets' = targets
       /\ (last'.op = "render_indexed" /\ last'.res = "Ok") =>
              /\ render_targets' = render_targets
              /\ \A h \in Handles : h # Top(render_targets) => targets'[h] = targets[h]
      ]_vars

\* C3 witness: a successful render_indexed with handle 2 pushed over handle 1
\* has written framebuffer 2 and left framebuffer 1 as cleared.
C3_Witness ==
    /\ last.op = "render_indexed" /\ last.res = "Ok"
    /\ render_targets = <<1, 2>>
    /\ targets[2] # SceneTargets[2]
    /\ targets[1] = SceneTargets[1]

\* C4: after a successful new_frame all four counters are zero and the stack is
\* (still) empty; the same holds of a Rasterizer just returned by new().
C4_NewFrameResets ==
    ((last.op = "new_frame" /\ last.res = "Ok") \/ last.op = "new") =>
        /\ StatsZero(stats)
        /\ render_targets = <<>>

\* C4 witness: a successful new_frame that found every counter non-zero.
C4_Witness ==
    /\ last.op = "new_frame" /\ last.res = "Ok"
    /\ Unwrap(last.arg).calls = MaxCalls
    /\ Unwrap(last.arg).instances > 0
    /\ Unwrap(last.arg).faces_rendered > 0
    /\ Unwrap(last.arg).faces_processed > Unwrap(last.arg).faces_rendered

\* C5: a successful render_indexed with n indices and instance_count c adds 1
\* to calls, c to instances, c * floor(n / 3) to faces_processed and between 0
\* and c * floor(n / 3) to faces_rendered.
C5_CountsPerCall ==
    [][(last'.op = "render_indexed" /\ last'.res = "Ok") =>
          LET n == Unwrap(last'.arg).n
              c == Unwrap(last'.arg).c
          IN  /\ stats'.calls = stats.calls + 1
              /\ stats'.instances = stats.instances + c
              /\ stats'.faces_processed = stats.faces_processed + c * (n \div 3)
              /\ stats'.faces_rendered >= stats.faces_rendered
              /\ stats'.faces_rendered <= stats.faces_rendered + c * (n \div 3)
      ]_vars

\* C5 witness: the second call of a frame, with 4 indices (one trailing) and
\* two instances, has succeeded.
C5_Witness ==
    /\ last.op = "render_indexed" /\ last.res = "Ok"
    /\ Unwrap(last.arg).n = 4 /\ Unwrap(last.arg).c = 2
    /\ stats.calls = 2 /\ stats.faces_processed > 2

\* C6: no call other than a successful new_frame decreases any of the four
\* counters, and faces_rendered <= faces_processed in every state.  The
\* states are those between calls and the one a panic leaves: a call holds
\* &mut self, so nothing observes the counters while it runs.
C6_StatsMonotone ==
    [][/\ ~(last'.op = "new_frame" /\ last'.res = "Ok") =>
              /\ stats'.calls >= stats.calls
              /\ stats'.instances >= stats.instances
              /\ stats'.faces_processed >= stats.faces_processed
              /\ stats'.faces_rendered >= stats.faces_rendered
       /\ stats.faces_rendered <= stats.faces_processed
       /\ stats'.faces_rendered <= stats'.faces_processed
      ]_vars

\* C6 witness: a new_frame refused in the middle of a frame whose counters are
\* all non-zero, with a face processed and not rendered.
C6_Witness ==
    /\ last.op = "new_frame" /\ last.res = "RenderTargetUnfinished"
    /\ stats.calls = MaxCalls /\ stats.instances > 0
    /\ stats.faces_rendered > 0
    /\ stats.faces_rendered < stats.faces_processed

\* C7: every scanline range a face requests is valid for the framebuffer
\* (offset < H and offset + count <= H), and render_indexed with a render
\* target bound returns success.
C7_ScanlineRangeValid ==
    (last.op = "render_indexed" /\ render_targets # <<>>) =>
        /\ last.res = "Ok"
        /\ IsSome(Unwrap(last.arg).req) =>
              LET req == Unwrap(Unwrap(last.arg).req)
                  H == targets[Top(render_targets)].height
              IN  req.offset < H /\ req.offset + req.count <= H

\* ------------------------------------------------------- framebuffer claims
FbRangeInvalid(offset, count, height) == offset >= height \/ offset + count > height

IsRowOf(s, img, y, width) ==
    /\ s.hi - s.lo = width
    /\ \A x \in 0..(width - 1) : index_of(img, x, y) = Some(s.lo + x)

SlicesDisjoint(s, t) == s.hi <= t.lo \/ t.hi <= s.lo \/ s.lo = s.hi \/ t.lo = t.hi

\* C9: for a valid range scanlines returns exactly count entries with y =
\* offset, offset+1, ... in order; each entry holds K colour slices, slice i
\* being row y (length W) of colour attachment i, and a depth slice (row y of
\* the depth attachment) iff the framebuffer has one; the slices of two
\* different entries share no pixel.
C9_ScanlineView ==
    (fblast.op = "scanlines" /\ fblast.res = "Ok") =>
        /\ Len(view) = fblast.b
        /\ \A e \in 1..Len(view) :
              /\ view[e].y = fblast.a + (e - 1)
              /\ Len(view[e].color) = Len(fb.color)
              /\ \A i \in 1..Len(fb.color) :
                    IsRowOf(view[e].color[i], fb.color[i], view[e].y, fb.width)
              /\ IsSome(view[e].depth) = IsSome(fb.depth)
              /\ IsSome(fb.depth) =>
                    IsRowOf(Unwrap(view[e].depth), Unwrap(fb.depth), view[e].y, fb.width)
        /\ \A e1 \in 1..Len(view) : \A e2 \in 1..Len(view) :
              e1 # e2 =>
                 /\ \A i \in 1..Len(fb.color) :
                       SlicesDisjoint(view[e1].color[i], view[e2].color[i])
                 /\ IsSome(fb.depth) =>
                       SlicesDisjoint(Unwrap(view[e1].depth), Unwrap(view[e2].depth))

\* C9 witness: a two-row view of a framebuffer with a
\* colour and a depth attachment.
C9_Witness ==
    /\ fblast.op = "scanlines" /\ fblast.res = "Ok"
    /\ fblast.a = 0 /\ fblast.b = 2 /\ Len(view) = 2
    /\ fb.width = 2 /\ Len(fb.color) = 1 /\ IsSome(fb.depth)

AllPixels(img, width, height, value) ==
    /\ Len(img.data) = width * height
    /\ \A x \in 0..(width - 1) : \A y \in 0..(height - 1) : at(img, x, y) = Some(value)

\* C10: after clear(v) on a framebuffer built by new(W, H, K, has_depth), each
\* of the K colour attachments has W*H pixels all equal to v.color, the depth
\* attachment exists iff has_depth and then has W*H pixels all equal to
\* v.depth; width, height and the attachment count are those given to new.
C10_ClearFillsEveryPixel ==
    fblast.op = "clear" =>
        /\ size(fb) = <<fbshape.width, fbshape.height>>
        /\ Len(fb.color) = fbshape.num_color
        /\ \A i \in 1..Len(fb.color) :
              AllPixels(fb.color[i], fbshape.width, fbshape.height, fblast.a)
        /\ IsSome(fb.depth) = fbshape.has_depth
        /\ IsSome(fb.depth) =>
              AllPixels(Unwrap(fb.depth), fbshape.width, fbshape.height, fblast.b)

\* C10 witness: a clear of a 2x2 framebuffer with colour and depth, applied
\* after a pixel had been written through a scanline.
C10_Witness ==
    /\ fblast.op = "clear" /\ fbsteps = 3
    /\ fbshape = [width |-> 2, height |-> 2, num_color |-> 1, has_depth |-> TRUE]


\* ----------------------------------------------------------- scissor claims
\* C11 as stated: for all scissors A and B, zero extents included, A n B and
\* B n A are both absent or equal, and A n A is present and equal to A.
C11_CommutativeIdempotent ==
    Applied =>
        /\ Unwrap(output).ab = Unwrap(output).ba
        /\ Unwrap(output).aa = Some(input.a)

\* C11, amended: intersect_with is commutative for all scissors; A n A is A
\* when A has positive width and height, and absent when either is zero.
C11_CommutativeIdempotentNonEmpty ==
    Applied =>
        /\ Unwrap(output).ab = Unwrap(output).ba
        /\ Unwrap(output).aa =
              IF input.a.width > 0 /\ input.a.height > 0 THEN Some(input.a) ELSE None

\* C11 witness: two scissors that overlap in a rectangle that is neither.
C11_Witness ==
    /\ Applied
    /\ IsSome(Unwrap(output).ab)
    /\ Unwrap(output).ab \notin {Some(input.a), Some(input.b)}
    /\ Unwrap(output).aa = Some(input.a)


\* ------------------------------------------------------- single-face claims
\* Geometry of the face drawn in SpecFace, stated on its own: the screen
\* positions of its vertices, the centre of pixel (x, y), and the orientation
\* of p against the directed edge a -> b (negative: p is to the left of the
\* edge on a screen whose y axis points down, the counter-clockwise side).
FaceXY(i) == Point2(input.vertices[i].position.x, input.vertices[i].position.y)
FacePixels == (0..(FaceTarget.width - 1)) \X (0..(FaceTarget.height - 1))
Center(px) ==
    Point2(F32(2 * px[1] + 1 - FaceTarget.width, FaceTarget.width),
           F32(2 * px[2] + 1 - FaceTarget.height, FaceTarget.height))
Orient(a, b, p) ==
    FSub(FMul(FSub(b.x, a.x), FSub(p.y, a.y)), FMul(FSub(b.y, a.y), FSub(p.x, a.x))).n
FaceOrient == Orient(FaceXY(1), FaceXY(2), FaceXY(3))
FaceCCW == FaceOrient < 0
FaceCW == FaceOrient > 0
FaceInsideViewport ==
    \A i \in 1..3 : /\ FLe(F32(-1, 1), FaceXY(i).x) /\ FLe(FaceXY(i).x, F32One)
                     /\ FLe(F32(-1, 1), FaceXY(i).y) /\ FLe(FaceXY(i).y, F32One)
EdgeOrients(px) ==
    << Orient(FaceXY(1), FaceXY(2), Center(px)),
       Orient(FaceXY(2), FaceXY(3), Center(px)),
       Orient(FaceXY(3), FaceXY(1), Center(px)) >>
StrictlyInside(px) ==
    \/ \A i \in 1..3 : EdgeOrients(px)[i] < 0
    \/ \A i \in 1..3 : EdgeOrients(px)[i] > 0
FaceResult == Unwrap(output)
FaceAfter == FaceResult.fbs[1]
ColorWritten(px) ==
    at(FaceAfter.color[1], px[1], px[2]) # at(FaceTarget.color[1], px[1], px[2])
DepthWritten(px) ==
    at(Unwrap(FaceAfter.depth), px[1], px[2]) # at(Unwrap(FaceTarget.depth), px[1], px[2])
FaceGenScissor ==
    gen_scissor([i \in 1..3 |->
                    Point2(FDiv(FAdd(FaceXY(i).x, F32One), F32(2, 1)),
                           FDiv(FAdd(FaceXY(i).y, F32One), F32(2, 1)))],
                FaceTarget.width, FaceTarget.height)

\* C12: a non-degenerate counter-clockwise triangle wholly inside the
\* viewport, drawn with no user scissor under DontCare at positive depth:
\* every pixel whose centre is strictly inside it lies in the generated
\* scissor and is written.  And for any face drawn with no user scissor, no
\* pixel outside the generated scissor is written.
C12_CoverageComplete ==
    (Applied /\ input.scissor = None) =>
        /\ (FaceCCW /\ FaceInsideViewport /\ input.pipeline.depth = "DontCare") =>
              /\ FaceResult.res = "Ok"
              /\ \A px \in FacePixels :
                    StrictlyInside(px) =>
                        /\ contains(FaceGenScissor, px[1], px[2])
                        /\ ColorWritten(px)
        /\ \A px \in FacePixels :
              ~contains(FaceGenScissor, px[1], px[2]) =>
                  ~ColorWritten(px) /\ ~DepthWritten(px)

\* C12 witness: such a triangle, with vertices off the pixel grid, that has a
\* pixel strictly inside it and leaves a pixel of its scissor unwritten.
C12_Witness ==
    /\ Applied /\ input.scissor = None
    /\ FaceCCW /\ FaceInsideViewport /\ input.pipeline.depth = "DontCare"
    /\ \E i \in 1..3 : FaceXY(i).x = F32(-1, 2)
    /\ \A i \in 1..3 : FLe(FaceXY(i).x, F32(-1, 2))
    /\ \E px \in FacePixels : StrictlyInside(px) /\ ColorWritten(px)
    /\ \E px \in FacePixels :
          contains(FaceGenScissor, px[1], px[2]) /\ ~ColorWritten(px)
    /\ \E px \in FacePixels : ~contains(FaceGenScissor, px[1], px[2])


\* A pixel the user scissor, if any, lets through.
InUserScissor(px) ==
    IsSome(input.scissor) => contains(Unwrap(input.scissor), px[1], px[2])

\* C13: under cull_back and CounterClockwise winding a non-degenerate
\* triangle given in clockwise order leaves the framebuffer as it was, and
\* one given in counter-clockwise order (any clockwise triangle with two
\* indices swapped) has every pixel whose centre is strictly inside it
\* accepted by the coverage test, and written where the user scissor allows.
C13_BackFaceCulled ==
    (Applied /\ input.pipeline.cull_back
             /\ input.pipeline.winding_order = "CounterClockwise") =>
        /\ FaceCW => FaceAfter = FaceTarget
        /\ FaceCCW =>
              \A px \in FacePixels :
                  StrictlyInside(px) =>
                      /\ IsSome(process_fragment_geometry(
                                    [i \in 1..3 |-> Point3(FaceXY(i).x, FaceXY(i).y,
                                                           F32(1, 2))],
                                    Center(px), input.pipeline))
                      /\ InUserScissor(px) => ColorWritten(px)

\* C13 witness: a clockwise triangle that has pixels strictly inside it, drawn
\* under cull_back with no user scissor, and nothing written.
C13_Witness ==
    /\ Applied /\ input.pipeline.cull_back /\ input.scissor = None
    /\ FaceCW /\ FaceInsideViewport
    /\ \E px \in FacePixels : StrictlyInside(px)
    /\ FaceResult.res = "Ok"
    /\ FaceResult.self.stats.faces_rendered = 1
    /\ FaceAfter = FaceTarget


\* ------------------------------------------------------------- depth claims
\* The pixel of SpecDepth before and after the last call, and the depth d of
\* the fragment the call produced for it: the depth its instance moved the
\* face to, or NaN for the degenerate face (0 / 0 in the flat weights).
DepthArg == Unwrap(last.arg)
DepthBefore == DepthArg.before
DepthAfter == targets[1]
FragmentDepth ==
    IF DepthArg.face = <<3, 4, 5>> THEN F32NaN
    ELSE DepthInstances[DepthArg.instance + 1].model.z
FragmentColor == DepthInstances[DepthArg.instance + 1].color
StoredDepth == Unwrap(at(Unwrap(DepthBefore.depth), 0, 0))
PixelKept ==
    /\ at(DepthAfter.color[1], 0, 0) = at(DepthBefore.color[1], 0, 0)
    /\ DepthAfter.depth = DepthBefore.depth
PixelColored == at(DepthAfter.color[1], 0, 0) = Some(FragmentColor)

\* C14: a covered fragment of depth d is discarded (neither colour nor depth
\* written) iff d < 0, or the depth mode is Test or Write, a depth attachment
\* exists and d is greater than the stored depth; otherwise its colour is
\* written.  So under Test a face at greater depth changes nothing and one at
\* equal depth overwrites the colour.
C14_DiscardRule ==
    (last.op = "render_indexed" /\ last.res = "Ok") =>
        LET d == FragmentDepth
            discarded ==
                \/ FLt(d, F32Zero)
                \/ /\ DepthArg.mode \in {"Test", "Write"}
                   /\ IsSome(DepthBefore.depth)
                   /\ FLt(StoredDepth, d)
        IN  IF discarded THEN PixelKept ELSE PixelColored


\* ------------------------------------------------------------------- C15
\* The pixel of attachment i of the 1x1 framebuffer.
AttachmentPixel(f, i) == Unwrap(at(f.color[i], 0, 0))
AttachmentSource == AttachmentInstances[input.instance + 1].color
AttachmentExpected(i) ==
    IF IsSome(input.blending)
    THEN blend_colors(Unwrap(input.blending)[i], AttachmentSource,
                      AttachmentPixel(AttachmentTarget(input.k), i))
    ELSE AttachmentSource

\* C15: once the call has drawn the covering fragment, for every K and every
\* blending vector, the call returns and the pixel of every colour attachment
\* i < K is blending[i].blend_colors(source, previous value) when the pipeline
\* has a blending vector, and exactly the fragment-stage colour when it has
\* none.
C15_BlendPerAttachment ==
    Applied =>
        /\ Unwrap(output).res = "Ok"
        /\ \A i \in 1..input.k :
              AttachmentPixel(Unwrap(output).fbs[1], i) = AttachmentExpected(i)


\* ------------------------------------------------------------------- C16
\* The blended value of channel i times 65536, in integers: a byte is its
\* channel times 256, a coefficient times 256 is 0, 256, an alpha byte or 256
\* less an alpha byte.
Coeff256(factor) ==
    CASE factor = "Zero" -> 0
      [] factor = "One" -> 256
      [] factor = "SrcAlpha" -> input.src[4]
      [] factor = "OneMinusSrcAlpha" -> 256 - input.src[4]
      [] factor = "DstAlpha" -> input.dst[4]
      [] factor = "OneMinusDstAlpha" -> 256 - input.dst[4]
Blended65536(i) ==
    LET component == IF i = 4 THEN input.attachment.alpha ELSE input.attachment.color
        s == Coeff256(Unwrap(component).src_factor) * input.src[i]
        d == Coeff256(Unwrap(component).dst_factor) * input.dst[i]
    IN  IF component = None THEN 256 * input.src[i]
        ELSE CASE Unwrap(component).op = "Add" -> s + d
               [] Unwrap(component).op = "SrcSubDst" -> s - d
               [] Unwrap(component).op = "DstSubSrc" -> d - s
OneOne(op) == Some(ComponentBlendOp(op, "One", "One"))
BlendExample(op, s, d, byte) ==
    (/\ input.attachment.color = OneOne(op)
     /\ input.src[1] = s
     /\ input.dst[1] = d) => Unwrap(output)[1] = byte

\* C16: every channel of the colour blend_colors returns is a byte, clamped
\* and never wrapped: 255 when the blended channel times 256 exceeds 255, 0
\* when it is negative, the blended channel times 256 cut to an integer
\* otherwise.  Add/One/One on 0xFF and 0xFF gives 0xFF, SrcSubDst/One/One on
\* 0x10 and 0x20 gives 0x00, Add/One/One on 0x40 and 0x40 gives 0x80.
C16_BlendClamps ==
    Applied =>
        /\ \A i \in 1..4 :
              LET n == Blended65536(i)
                  byte == Unwrap(output)[i]
              IN  /\ byte \in 0..255
                  /\ n > 255 * 256 => byte = 255
                  /\ n < 0 => byte = 0
                  /\ (n >= 0 /\ n <= 255 * 256) => byte = n \div 256
        /\ BlendExample("Add", 255, 255, 255)
        /\ BlendExample("SrcSubDst", 16, 32, 0)
        /\ BlendExample("Add", 64, 64, 128)

\* blend_colors has returned 0xFF for 0xFF + 0xFF, which is over the range.
C16_Witness ==
    /\ Applied
    /\ input.attachment.color = OneOne("Add")
    /\ input.src[1] = 255
    /\ input.dst[1] = 255
    /\ Blended65536(1) > 255 * 256
    /\ Unwrap(output)[1] = 255


\* ------------------------------------------------------------------- C17
\* The three signed areas of the centre of px, positive on the inner side of
\* a front-facing (counter-clockwise) triangle; only their signs matter.
AreaSigns(px) == [i \in 1..3 |-> -Sgn(EdgeOrients(px)[i])]
RuleAccepts(px) ==
    \/ \A i \in 1..3 : AreaSigns(px)[i] >= 0
    \/ /\ ~input.pipeline.cull_back
       /\ \A i \in 1..3 : AreaSigns(px)[i] <= 0
CodeAccepts(px) ==
    IsSome(process_fragment_geometry(
               [i \in 1..3 |-> Point3(FaceXY(i).x, FaceXY(i).y, F32(1, 2))],
               Center(px), input.pipeline))
FinalScissorHas(px) ==
    contains(FaceGenScissor, px[1], px[2]) /\ InUserScissor(px)

\* C17: the coverage test accepts a pixel centre iff its three signed areas
\* are all >= 0, or, when cull_back is false, all <= 0; so under DontCare a
\* pixel of the final scissor is written iff the rule accepts it, a centre on
\* an edge of a back-facing triangle included.
C17_CoverageRule ==
    Applied =>
        \A px \in FacePixels :
            /\ CodeAccepts(px) <=> RuleAccepts(px)
            /\ (/\ FaceResult.res = "Ok"
                /\ input.pipeline.depth = "DontCare"
                /\ FinalScissorHas(px)) => (ColorWritten(px) <=> RuleAccepts(px))


\* ------------------------------------------------------------ thread claims
\* The face whose scanline tasks were dispatched last, the framebuffer now,
\* the framebuffer that face's tasks leave when they run one after the other,
\* and the colour and depth of a pixel.
ScanFace == Unwrap(Unwrap(par).face)
ThreadFb == targets[ThreadTop]
Sequential ==
    for_each_scanline(ScanFace.fc, ScanFace.scissor, ScanFace.lines, 1,
                      ScanFace.start).fb
PixelOf(f, px) ==
    << at(f.color[1], px[1], px[2]),
       IF IsSome(f.depth) THEN at(Unwrap(f.depth), px[1], px[2]) ELSE None >>
Dispatched == par # None /\ Unwrap(par).face # None

\* C18: while the scanline tasks of a face run, in whatever order, no pixel
\* has been processed twice, a processed pixel lies in the final scissor and
\* was processed by the task that owns its row, it holds the value the face
\* gives it when the tasks run one after the other, and every other pixel is
\* as the face found it.  Once the face is left (before any work of the next
\* face), every pixel of the final scissor has been processed exactly once
\* and the framebuffer is the one the sequential run produces.
C18_ParallelScanlines ==
    Dispatched =>
        /\ \A px \in Pixels(ThreadFb) :
              LET tasks == Unwrap(par).by[px]
              IN  /\ Len(tasks) <= 1
                  /\ tasks # <<>> =>
                        /\ contains(ScanFace.scissor, px[1], px[2])
                        /\ ScanFace.lines[tasks[1]].y = px[2]
                  /\ PixelOf(ThreadFb, px) =
                        IF tasks # <<>> THEN PixelOf(Sequential, px)
                                        ELSE PixelOf(ScanFace.start, px)
        /\ Unwrap(par).phase # "scan" =>
              /\ \A px \in Pixels(ThreadFb) :
                    contains(ScanFace.scissor, px[1], px[2])
                        <=> Len(Unwrap(par).by[px]) = 1
              /\ ThreadFb = Sequential

\* C18 witness: the task of the second row has finished and written before
\* the task of the first row has started, in a face that finds the writes of
\* the face before it.
C18_Witness ==
    /\ Dispatched
    /\ Unwrap(par).phase = "scan"
    /\ Len(Unwrap(par).cursors) = 2
    /\ Unwrap(par).cursors[1] = 0
    /\ Unwrap(par).cursors[2] = ScanFace.scissor.width
    /\ ThreadFb # ScanFace.start
    /\ Unwrap(par).i = 1
    /\ ScanFace.start # ThreadTarget

\* ------------------------------------------------------------------- C19
\* C19: from the lock taken before the first face to the return after the
\* last, render_indexed holds the mutex of the top framebuffer; a holder that
\* locks the handle (with lock().unwrap(), as every locker of the repository)
\* does so while no call is in progress and sees the framebuffer as the
\* mutex was last released, with none or all of a call's writes; and while a
\* call is in progress the framebuffer changes only by a pixel step of that
\* call.
C19_LockHeldWholeCall ==
    /\ [](/\ par # None => mutex.holder = "rasterizer"
          /\ presenter.state = "holding" =>
                /\ par = None
                /\ mutex.holder = "presenter"
                /\ presenter.obs = Some(boundary)
                /\ targets[ThreadTop] = boundary)
    /\ [][(par # None /\ targets' # targets) =>
              /\ par' # None
              /\ mutex'.holder = "rasterizer"
              /\ \E px \in Pixels(ThreadFb) :
                    Unwrap(par').by[px] # Unwrap(par).by[px]]_vars

\* C19 witness: the presenter holds the lock after a call that wrote pixels
\* and sees all of them; the next call cannot start.
C19_Witness ==
    /\ presenter.state = "holding"
    /\ stats.calls = 1
    /\ stats.faces_rendered > 0
    /\ presenter.obs # Some(ThreadTarget)
    /\ presenter.obs = Some(targets[ThreadTop])
    /\ ~can_lock(mutex)


\* ------------------------------------------------------------------- C20
\* The final scissor of the face drawn in SpecFace: the generated scissor,
\* intersected with the user scissor if one is given.
FaceFinalScissor ==
    IF IsSome(input.scissor)
    THEN intersect_with(FaceGenScissor, Unwrap(input.scissor))
    ELSE Some(FaceGenScissor)

\* C20: the call of one face returns with faces_rendered = 1 exactly when
\* the final scissor is present; a face whose generated scissor is disjoint
\* from the user scissor counts in faces_processed, not in faces_rendered,
\* and writes nothing; a face that is wholly back-face culled still counts in
\* faces_rendered; no pixel outside the user scissor is written.
C20_FacesRendered ==
    Applied =>
        /\ FaceResult.self.stats.faces_rendered = 1 <=> IsSome(FaceFinalScissor)
        /\ ~IsSome(FaceFinalScissor) =>
              /\ FaceResult.self.stats.faces_processed = 1
              /\ FaceResult.self.stats.faces_rendered = 0
              /\ FaceAfter = FaceTarget
        /\ (input.pipeline.cull_back /\ FaceCW /\ IsSome(FaceFinalScissor)) =>
              /\ FaceResult.self.stats.faces_rendered = 1
              /\ FaceAfter = FaceTarget
        /\ \A px \in FacePixels :
              ~InUserScissor(px) => ~ColorWritten(px) /\ ~DepthWritten(px)


\* ------------------------------------------------------------------- C21
\* The fragment of the last call of SpecDepth was accepted where the depth
\* mode tests against a depth attachment: its depth is a number, not
\* negative, and not greater than the stored depth.
DepthAccepted ==
    /\ FGe(FragmentDepth, F32Zero)
    /\ FLe(FragmentDepth, StoredDepth)

\* C21: a render_indexed call changes the depth attachment only when the
\* depth mode is Write and a depth attachment exists, and then the depth of
\* the pixel is the fragment's depth if the fragment was accepted and
\* unchanged otherwise; under Test and DontCare every call of a sequence
\* leaves the depth attachment as it found it.
C21_DepthWrites ==
    /\ [](last.op = "render_indexed" =>
            IF DepthArg.mode = "Write" /\ IsSome(DepthBefore.depth) /\ DepthAccepted
            THEN /\ last.res = "Ok"
                 /\ at(Unwrap(DepthAfter.depth), 0, 0) = Some(FragmentDepth)
            ELSE DepthAfter.depth = DepthBefore.depth)
    /\ [][targets'[1].depth # targets[1].depth =>
              /\ last'.op = "render_indexed"
              /\ Unwrap(last'.arg).mode = "Write"
              /\ IsSome(targets[1].depth)
              /\ Unwrap(last'.arg).before = targets[1]]_vars

\* C21 witness: a Write call has set the depth to 1/2, and a Test call after
\* it, of a nearer face, has changed the colour and left the depth.
C21_Witness ==
    /\ last.op = "render_indexed"
    /\ stats.calls = 2
    /\ DepthArg.mode = "Test"
    /\ IsSome(DepthBefore.depth)
    /\ StoredDepth = F32(1, 2)
    /\ at(DepthAfter.color[1], 0, 0) # at(DepthBefore.color[1], 0, 0)
    /\ DepthAfter.depth = DepthBefore.depth


\* ------------------------------------------------------------------- C22
\* The vertices of the face drawn in SpecFace are collinear or coincident.
FaceDegenerate == FaceOrient = 0

\* C22: a degenerate face is skipped: under every pipeline, depth mode
\* DontCare and cull_back false included, the call that draws it leaves every
\* colour and depth attachment as it was.
C22_DegenerateSkipped ==
    (Applied /\ FaceDegenerate) => FaceAfter = FaceTarget

=============================================================================
